---- MODULE Spec2Model ----
(***************************************************************************)
(* Notion -> Telegram notifier (src/index.js): one invocation queries the  *)
(* database for armed records whose Notify Time has passed, sends one      *)
(* message per record and then either disables the record or moves its     *)
(* Notify Time to the next business day.                                   *)
(*                                                                         *)
(* Time.  An instant (Date.getTime()) is an integer count of HOURS since   *)
(* Monday 2024-03-04T00:00:00Z; the code counts milliseconds since         *)
(* Thursday 1970-01-01, which differs by a constant shift and a constant   *)
(* factor only.  An ISO string is a record [local, off]: the wall-clock    *)
(* reading `local` (in hours) written with UTC offset `off` (in hours), so *)
(* "2024-03-08T10:00:00+01:00" is [local |-> 106, off |-> 1] and           *)
(* "2024-03-08T09:00:00.000Z" is [local |-> 105, off |-> 0].               *)
(***************************************************************************)
EXTENDS Integers, Sequences, FiniteSets

\* ---------------------------------------------------------------- bounds
\* number of days the calendar inputs range over
CalDays == 8
\* records in the database
NumRecords == 3
\* invocations of the job by the external scheduler
MaxRuns == 2

\* ------------------------------------------------------- program constants
\* 24 * 60 * 60 * 1000 ms, in the model's unit of one hour
DayMs == 24
\* timeZone: 'Africa/Lagos' is UTC+1 all year (no daylight saving)
LagosOffset == 1
\* for (let i = 1; i <= 7; i++)
MaxProbe == 7

WeekdayNames == <<"Mon", "Tue", "Wed", "Thu", "Fri", "Sat", "Sun">>

NoIso == [local |-> -1, off |-> 0]

\* the UTC offsets an ISO string handed to new Date(...) is written with
IsoOffsets == {0, LagosOffset}

\* new Date(isoStr).getTime()
ParseIso(isoStr) == isoStr.local - isoStr.off

\* Date.prototype.toISOString(): always the UTC ("Z") form
ToISOString(ms) == [local |-> ms, off |-> 0]

\* Intl.DateTimeFormat('en-GB', {timeZone: 'Africa/Lagos', weekday: 'short'})
getLagosWeekdayShort(ms) == WeekdayNames[(((ms + LagosOffset) \div DayMs) % 7) + 1]

addDaysIso(isoStr, days) == ToISOString(ParseIso(isoStr) + days * DayMs)

\* mutant: the weekday taken in UTC, not in Africa/Lagos
CandidateWeekday_Utc(candidate) == WeekdayNames[((candidate \div DayMs) % 7) + 1]

\* the weekday the loop body computes for a candidate instant
CandidateWeekday(candidate) == getLagosWeekdayShort(candidate)

RECURSIVE ProbeFrom(_, _)
\* the for loop of nextBusinessDayIso from probe i on: the first candidate
\* that is neither Sat nor Sun, or -1 when the loop runs out
ProbeFrom(dt, i) ==
    IF i > MaxProbe THEN -1
    ELSE LET candidate == dt + i * DayMs
             weekday == CandidateWeekday(candidate)
         IN  IF weekday # "Sat" /\ weekday # "Sun"
             THEN candidate
             ELSE ProbeFrom(dt, i + 1)

\* mutant: the loop starts at i = 0, so a business day is returned unchanged
nextBusinessDayIso_FromZero(isoStr) ==
    LET found == ProbeFrom(ParseIso(isoStr), 0)
    IN  IF found # -1 THEN ToISOString(found) ELSE addDaysIso(isoStr, 1)

\* lines 29-44; the last return is the fallback after the loop
nextBusinessDayIso(isoStr) ==
    LET found == ProbeFrom(ParseIso(isoStr), 1)
    IN  IF found # -1 THEN ToISOString(found) ELSE addDaysIso(isoStr, 1)

\* ------------------------------------------------------------ data model
Rec == 1..NumRecords

\* page_size: 100, scaled to the database so that the first page can be full
PageSize == NumRecords - 1

\* the wall clock when the first invocation starts: Friday 2024-03-08T10:00Z
StartClock == 4 * DayMs + 10

\* the wall clock may advance by a day while the model runs
LastClock == StartClock + DayMs

\* Minimum of a finite non-empty set of integers
Min(S) == CHOOSE x \in S : \A y \in S : x <= y

\* the properties of a page the job reads or writes; Repeat = "" is a select
\* with no option chosen, NotifyTime = NoIso a date property left empty
Props(notify, notifyTime, repeat) ==
    [Notify |-> notify, NotifyTime |-> notifyTime, Repeat |-> repeat, LastSent |-> NoIso]

\* the kinds of page the operator has set up before the first invocation
OperatorPages ==
    << Props(TRUE, [local |-> StartClock - 1, off |-> 0], "Daily"),            \* due an hour ago
       Props(TRUE, [local |-> StartClock - 4 * DayMs - 1, off |-> 0], "Daily"), \* due four days ago
       Props(TRUE, [local |-> StartClock, off |-> LagosOffset], "None"),        \* due, written +01:00
       Props(TRUE, [local |-> StartClock + 10, off |-> 0], ""),                 \* due in ten hours
       Props(TRUE, NoIso, "Daily") >>                                           \* armed, no date

\* the databases the job may start on: every choice of a kind for each page,
\* the pages numbered in the order of their kinds (page ids are opaque, and
\* the query answers with any of the matching pages)
Databases ==
    { [r \in Rec |-> OperatorPages[f[r]]] :
        f \in { g \in [Rec -> 1..Len(OperatorPages)] :
                   \A r \in Rec : r + 1 \in Rec => g[r] <= g[r + 1] } }

VARIABLES
    calIn, calOut,  \* input and result of the calendar function under test
    envOk,          \* the four required environment variables are all set
    clock,          \* the wall clock, new Date()
    db,             \* the Notion database: page id -> properties
    runs,           \* invocations started so far
    pc,             \* where the invocation stands: the await it is suspended at
    nowUtcIso,      \* const nowUtcIso of the invocation
    pages,          \* const pages: the fetched list
    idx,            \* position in pages of the record being processed
    inflight,       \* network calls issued and not yet answered
    issued,         \* the network calls of this invocation, in the order issued
    outcome,        \* per position: "pending", "sent", "ok", "sendFail", "patchFail"
    queryRes,       \* "none", "ok" or "failed": how notionQuery ended
    exitCode,       \* -1 while the process runs, then its exit code
    fetchesOk,      \* successful queries so far, over all invocations
    owed            \* pages whose message went out but whose update failed, each with
                    \* the value of fetchesOk at the time

calVars == <<calIn, calOut>>
runVars == <<envOk, clock, db, runs, pc, nowUtcIso, pages, idx, inflight, issued,
             outcome, queryRes, exitCode, fetchesOk, owed>>
vars == <<calIn, calOut, envOk, clock, db, runs, pc, nowUtcIso, pages, idx, inflight,
          issued, outcome, queryRes, exitCode, fetchesOk, owed>>

Call(kind, pos, body) == [kind |-> kind, pos |-> pos, body |-> body]

\* ------------------------------------------------------------- notionQuery
\* the filter: Notify = true and Notify Time on_or_before nowIso (an empty
\* date matches no date filter)
Matches(props, nowIso) ==
    /\ props.Notify
    /\ props.NotifyTime # NoIso
    /\ ParseIso(props.NotifyTime) <= ParseIso(nowIso)

RECURSIVE PageList(_, _)
\* the pages with ids in S as the list the API returns
PageList(d, S) ==
    IF S = {} THEN <<>>
    ELSE LET r == Min(S)
         IN  <<[id |-> r, properties |-> d[r]]>> \o PageList(d, S \ {r})

\* mutant: page_size: 1
QueryResults_PageOfOne(d, nowIso) ==
    LET due == {r \in Rec : Matches(d[r], nowIso)}
        n == IF Cardinality(due) <= 1 THEN Cardinality(due) ELSE 1
    IN  {PageList(d, S) : S \in {T \in SUBSET due : Cardinality(T) = n}}

\* the lists the query may answer with: the matching pages when they fit the
\* page, else any PageSize of them (has_more is ignored)
QueryResults(d, nowIso) ==
    LET due == {r \in Rec : Matches(d[r], nowIso)}
        n == IF Cardinality(due) <= PageSize THEN Cardinality(due) ELSE PageSize
    IN  {PageList(d, S) : S \in {T \in SUBSET due : Cardinality(T) = n}}

\* --------------------------------------------------- scheduleNextOrDisable
\* mutant: the one-time branch taken only when both conditions hold (&& for ||)
ScheduleBody_BothNeeded(nowIso, props) ==
    LET repeat == IF props.Repeat = "" THEN "None" ELSE props.Repeat
        notifyTime == props.NotifyTime
    IN  IF notifyTime = NoIso /\ repeat = "None"
        THEN [Notify |-> FALSE, LastSent |-> nowIso]
        ELSE [LastSent |-> nowIso,
              NotifyTime |-> nextBusinessDayIso(notifyTime),
              Notify |-> TRUE]

\* the body of the PATCH request
ScheduleBody(nowIso, props) ==
    LET repeat == IF props.Repeat = "" THEN "None" ELSE props.Repeat
        notifyTime == props.NotifyTime
    IN  IF notifyTime = NoIso \/ repeat = "None"
        THEN [Notify |-> FALSE, LastSent |-> nowIso]
        ELSE [LastSent |-> nowIso,
              NotifyTime |-> nextBusinessDayIso(notifyTime),
              Notify |-> TRUE]

\* what a successful PATCH does to the page: the named properties only
ApplyPatch(props, body) ==
    [f \in DOMAIN props |-> IF f \in DOMAIN body THEN body[f] ELSE props[f]]

\* --------------------------------------------------------------- the run
\* mutant: the remaining records are started together (pages.forEach(async ...))
LoopFrom_Parallel(pgs, k, rest) ==
    IF k <= Len(pgs)
    THEN /\ pc' = "awaitSend"
         /\ idx' = k
         /\ inflight' = rest \cup {Call("send", j, pgs[j].id) : j \in k..Len(pgs)}
         /\ issued' = issued \o [j \in 1..(Len(pgs) - k + 1) |->
                                    Call("send", k + j - 1, pgs[k + j - 1].id)]
         /\ exitCode' = exitCode
    ELSE /\ pc' = "exited"
         /\ idx' = k
         /\ inflight' = rest
         /\ issued' = issued
         /\ exitCode' = 0

\* the for loop from position k on, entered with the calls `rest` still
\* unanswered: send the message of record k and wait, or finish
LoopFrom(pgs, k, rest) ==
    IF k <= Len(pgs)
    THEN /\ pc' = "awaitSend"
         /\ idx' = k
         /\ inflight' = rest \cup {Call("send", k, pgs[k].id)}
         /\ issued' = Append(issued, Call("send", k, pgs[k].id))
         /\ exitCode' = exitCode
    ELSE /\ pc' = "exited"
         /\ idx' = k
         /\ inflight' = rest
         /\ issued' = issued
         /\ exitCode' = 0

Init ==
    /\ calIn = NoIso
    /\ calOut = NoIso
    /\ envOk \in BOOLEAN
    /\ clock = StartClock
    /\ db \in Databases
    /\ runs = 1
    /\ pc = "boot"
    /\ nowUtcIso = NoIso
    /\ pages = <<>>
    /\ idx = 0
    /\ inflight = {}
    /\ issued = <<>>
    /\ outcome = <<>>
    /\ queryRes = "none"
    /\ exitCode = -1
    /\ fetchesOk = 0
    /\ owed = {}

\* lines 10-13: a required variable is missing
EnvMissing ==
    /\ pc = "boot"
    /\ ~envOk
    /\ pc' = "exited"
    /\ exitCode' = 1
    /\ UNCHANGED <<calIn, calOut, envOk, clock, db, runs, nowUtcIso, pages, idx,
                   inflight, issued, outcome, queryRes, fetchesOk, owed>>

\* lines 128-132: read the clock once and post the query
StartQuery ==
    /\ pc = "boot"
    /\ envOk
    /\ nowUtcIso' = ToISOString(clock)
    /\ inflight' = inflight \cup {Call("query", 0, nowUtcIso')}
    /\ issued' = Append(issued, Call("query", 0, nowUtcIso'))
    /\ pc' = "query"
    /\ UNCHANGED <<calIn, calOut, envOk, clock, db, runs, pages, idx, outcome,
                   queryRes, exitCode, fetchesOk, owed>>

\* lines 132-150: the query answers; nothing to do, or the first send goes out
QueryOk ==
    /\ pc = "query"
    /\ \E c \in inflight, result \in QueryResults(db, nowUtcIso) :
        /\ c.kind = "query"
        /\ pages' = result
        /\ outcome' = [k \in 1..Len(result) |-> "pending"]
        /\ queryRes' = "ok"
        /\ fetchesOk' = fetchesOk + 1
        /\ LoopFrom(result, 1, inflight \ {c})
    /\ UNCHANGED <<calIn, calOut, envOk, clock, db, runs, nowUtcIso, owed>>

\* mutant: the outer catch logs the error and lets the process end normally
QueryFail_Swallowed ==
    /\ pc = "query"
    /\ \E c \in inflight :
        /\ c.kind = "query"
        /\ inflight' = inflight \ {c}
    /\ queryRes' = "failed"
    /\ pc' = "exited"
    /\ exitCode' = 0
    /\ UNCHANGED <<calIn, calOut, envOk, clock, db, runs, nowUtcIso, pages, idx,
                   issued, outcome, fetchesOk, owed>>

\* lines 159-162: the query fails; the outer catch ends the process
QueryFail ==
    /\ pc = "query"
    /\ \E c \in inflight :
        /\ c.kind = "query"
        /\ inflight' = inflight \ {c}
    /\ queryRes' = "failed"
    /\ pc' = "exited"
    /\ exitCode' = 1
    /\ UNCHANGED <<calIn, calOut, envOk, clock, db, runs, nowUtcIso, pages, idx,
                   issued, outcome, fetchesOk, owed>>

\* mutant: the PATCH body stamps a fresh clock reading, not the run's nowUtcIso
SendOk_FreshClock ==
    /\ pc = "awaitSend"
    /\ \E c \in inflight :
        /\ c.kind = "send" /\ c.pos = idx
        /\ LET body == ScheduleBody(ToISOString(clock), pages[idx].properties)
           IN  /\ inflight' = (inflight \ {c}) \cup {Call("patch", idx, body)}
               /\ issued' = Append(issued, Call("patch", idx, body))
    /\ outcome' = [outcome EXCEPT ![idx] = "sent"]
    /\ pc' = "awaitPatch"
    /\ UNCHANGED <<calIn, calOut, envOk, clock, db, runs, nowUtcIso, pages, idx,
                   queryRes, exitCode, fetchesOk, owed>>

\* lines 150-152 and 86-125: the message is delivered; the PATCH goes out
\* (the message text, lines 140-147, has no effect on what follows)
SendOk ==
    /\ pc = "awaitSend"
    /\ \E c \in inflight :
        /\ c.kind = "send" /\ c.pos = idx
        /\ LET body == ScheduleBody(nowUtcIso, pages[idx].properties)
           IN  /\ inflight' = (inflight \ {c}) \cup {Call("patch", idx, body)}
               /\ issued' = Append(issued, Call("patch", idx, body))
    /\ outcome' = [outcome EXCEPT ![idx] = "sent"]
    /\ pc' = "awaitPatch"
    /\ UNCHANGED <<calIn, calOut, envOk, clock, db, runs, nowUtcIso, pages, idx,
                   queryRes, exitCode, fetchesOk, owed>>

\* mutant: no inner try/catch, a failed send reaches the outer catch
SendFail_Abort ==
    /\ pc = "awaitSend"
    /\ \E c \in inflight :
        /\ c.kind = "send" /\ c.pos = idx
        /\ inflight' = inflight \ {c}
    /\ outcome' = [outcome EXCEPT ![idx] = "sendFail"]
    /\ pc' = "exited"
    /\ exitCode' = 1
    /\ UNCHANGED <<calIn, calOut, envOk, clock, db, runs, nowUtcIso, pages, idx, issued,
                   queryRes, fetchesOk, owed>>

\* mutant: the catch wraps the send alone, the update follows a failed send too
SendFail_StillUpdates ==
    /\ pc = "awaitSend"
    /\ \E c \in inflight :
        /\ c.kind = "send" /\ c.pos = idx
        /\ LET body == ScheduleBody(nowUtcIso, pages[idx].properties)
           IN  /\ inflight' = (inflight \ {c}) \cup {Call("patch", idx, body)}
               /\ issued' = Append(issued, Call("patch", idx, body))
    /\ outcome' = [outcome EXCEPT ![idx] = "sendFail"]
    /\ pc' = "awaitPatch"
    /\ UNCHANGED <<calIn, calOut, envOk, clock, db, runs, nowUtcIso, pages, idx,
                   queryRes, exitCode, fetchesOk, owed>>

\* lines 154-157: the send fails; the catch logs it and the loop goes on
SendFail ==
    /\ pc = "awaitSend"
    /\ \E c \in inflight :
        /\ c.kind = "send" /\ c.pos = idx
        /\ LoopFrom(pages, idx + 1, inflight \ {c})
    /\ outcome' = [outcome EXCEPT ![idx] = "sendFail"]
    /\ UNCHANGED <<calIn, calOut, envOk, clock, db, runs, nowUtcIso, pages, queryRes,
                   fetchesOk, owed>>

\* lines 152-153: the PATCH is applied; the loop goes on
PatchOk ==
    /\ pc = "awaitPatch"
    /\ \E c \in inflight :
        /\ c.kind = "patch" /\ c.pos = idx
        /\ db' = [db EXCEPT ![pages[idx].id] = ApplyPatch(@, c.body)]
        /\ LoopFrom(pages, idx + 1, inflight \ {c})
    /\ outcome' = [outcome EXCEPT ![idx] = "ok"]
    /\ owed' = {o \in owed : o.id # pages[idx].id}
    /\ UNCHANGED <<calIn, calOut, envOk, clock, runs, nowUtcIso, pages, queryRes, fetchesOk>>

\* lines 154-157: the PATCH is rejected; the catch logs it and the loop goes on
PatchFail ==
    /\ pc = "awaitPatch"
    /\ \E c \in inflight :
        /\ c.kind = "patch" /\ c.pos = idx
        /\ LoopFrom(pages, idx + 1, inflight \ {c})
    /\ outcome' = [outcome EXCEPT ![idx] = "patchFail"]
    /\ owed' = {o \in owed : o.id # pages[idx].id}
                \cup {[id |-> pages[idx].id, properties |-> pages[idx].properties, at |-> fetchesOk]}
    /\ UNCHANGED <<calIn, calOut, envOk, clock, db, runs, nowUtcIso, pages, queryRes,
                   fetchesOk>>

\* the external scheduler starts the job again: a fresh process
NextInvocation ==
    /\ pc = "exited"
    /\ runs < MaxRuns
    /\ runs' = runs + 1
    /\ pc' = "boot"
    /\ nowUtcIso' = NoIso
    /\ pages' = <<>>
    /\ idx' = 0
    /\ inflight' = {}
    /\ issued' = <<>>
    /\ outcome' = <<>>
    /\ queryRes' = "none"
    /\ exitCode' = -1
    /\ UNCHANGED <<calIn, calOut, envOk, clock, db, fetchesOk, owed>>

\* a day passes on the wall clock
Tick ==
    /\ clock < LastClock
    /\ clock' = clock + DayMs
    /\ UNCHANGED <<calIn, calOut, envOk, db, runs, pc, nowUtcIso, pages, idx,
                   inflight, issued, outcome, queryRes, exitCode, fetchesOk, owed>>

Next ==
    \/ EnvMissing
    \/ StartQuery
    \/ QueryOk
    \/ QueryFail
    \/ SendOk
    \/ SendFail
    \/ PatchOk
    \/ PatchFail
    \/ NextInvocation
    \/ Tick

Spec == Init /\ [][Next]_vars


\* ------------------------------------------------- calendar specification
CalInputs == {[local |-> l, off |-> o] : l \in 1..(CalDays * DayMs), o \in IsoOffsets}

CalInit ==
    /\ calIn \in CalInputs
    /\ calOut = NoIso
    /\ envOk = TRUE
    /\ clock = StartClock
    /\ db = [r \in Rec |-> Props(FALSE, NoIso, "")]
    /\ runs = 1
    /\ pc = "boot"
    /\ nowUtcIso = NoIso
    /\ pages = <<>>
    /\ idx = 0
    /\ inflight = {}
    /\ issued = <<>>
    /\ outcome = <<>>
    /\ queryRes = "none"
    /\ exitCode = -1
    /\ fetchesOk = 0
    /\ owed = {}

CalApply ==
    /\ calOut = NoIso
    /\ calOut' = nextBusinessDayIso(calIn)
    /\ UNCHANGED calIn
    /\ UNCHANGED runVars

CalNext == CalApply

CalSpec == CalInit /\ [][CalNext]_vars

\* ------------------------------------------------------------- properties
PageIds == {pages[k].id : k \in 1..Len(pages)}

\* positions in `issued` of the calls of one kind made for position k of pages
Calls(kind, k) == {i \in 1..Len(issued) : issued[i].kind = kind /\ issued[i].pos = k}

\* Repeat is absent or 'None', or there is no Notify Time
OneTime(props) == props.Repeat \in {"", "None"} \/ props.NotifyTime = NoIso

Finished(k) == outcome[k] \in {"ok", "sendFail", "patchFail"}

WeekendCodes == {"Sat", "Sun"}

\* C1: every record with a repeating policy whose send and update succeeded in
\* this run carries a Notify Time strictly after the run's nowUtcIso.
C1_RescheduledAfterNow ==
    \A k \in 1..Len(pages) :
        (outcome[k] = "ok" /\ ~OneTime(pages[k].properties))
            => ParseIso(db[pages[k].id].NotifyTime) > ParseIso(nowUtcIso)

\* C2: nextBusinessDayIso never returns an instant whose Africa/Lagos weekday
\* is Sat or Sun, and the 7-probe loop always finds a day, so the fallback
\* return is never the one taken.
C2_NeverWeekend ==
    calOut # NoIso =>
        /\ getLagosWeekdayShort(ParseIso(calOut)) \notin WeekendCodes
        /\ ProbeFrom(ParseIso(calIn), 1) # -1

\* a Lagos Friday is moved over the weekend to the Lagos Monday
C2_Witness ==
    /\ calOut # NoIso
    /\ getLagosWeekdayShort(ParseIso(calIn)) = "Fri"
    /\ getLagosWeekdayShort(ParseIso(calOut)) = "Mon"

\* C3 as stated: every record with Repeat 'None'/absent that the run has
\* processed is left with Notify = false.
C3_NoneAlwaysDisabled ==
    \A k \in 1..Len(pages) :
        (Finished(k) /\ pages[k].properties.Repeat \in {"", "None"})
            => ~db[pages[k].id].Notify

\* C3 as amended: a record with Repeat 'None'/absent whose send and update
\* both succeeded is left with Notify = false, and once Notify is false the
\* job neither sets it again nor sends a message for the record.
C3_NoneDisabledOnSuccess ==
    [][ /\ \A k \in 1..Len(pages') :
            (outcome'[k] = "ok" /\ pages'[k].properties.Repeat \in {"", "None"})
                => ~db'[pages'[k].id].Notify
        /\ \A r \in Rec :
            ~db[r].Notify =>
                /\ ~db'[r].Notify
                /\ \A i \in 1..Len(issued') :
                    (issued'[i].kind = "send" /\ issued'[i].body = r)
                        => (i <= Len(issued) /\ issued[i] = issued'[i]) ]_vars

\* a later invocation fetched successfully and left the disabled record alone
C3_Witness ==
    /\ runs > 1
    /\ queryRes = "ok"
    /\ pages # <<>>
    /\ \E r \in Rec : db[r].Repeat = "None" /\ ~db[r].Notify /\ r \notin PageIds

\* C4: once the query has succeeded the run ends with exit code 0 having sent
\* every fetched record once, and having issued the update of every record
\* whose send succeeded, whatever failed along the way.
C4_FailureDoesNotAbort ==
    (pc = "exited" /\ queryRes = "ok") =>
        /\ exitCode = 0
        /\ \A k \in 1..Len(pages) :
            /\ Finished(k)
            /\ Cardinality(Calls("send", k)) = 1
            /\ (outcome[k] # "sendFail") => (Cardinality(Calls("patch", k)) = 1)

\* the first record's send failed, the second was sent and rescheduled
C4_Witness ==
    /\ pc = "exited"
    /\ exitCode = 0
    /\ Len(pages) >= 2
    /\ outcome[1] = "sendFail"
    /\ outcome[2] = "ok"
    /\ db[pages[2].id] # pages[2].properties

\* C5: a failed query ends the process with exit code 1 before any send or
\* update; exit code 0 needs a successful query; an empty result ends the
\* run with exit code 0 and the query as its only call.
C5_FetchFailureIsFatal ==
    /\ (queryRes = "failed") =>
            /\ pc = "exited" /\ exitCode = 1
            /\ \A i \in 1..Len(issued) : issued[i].kind = "query"
    /\ (exitCode = 0) => (queryRes = "ok")
    /\ (queryRes = "ok" /\ pages = <<>>) =>
            /\ pc = "exited" /\ exitCode = 0
            /\ \A i \in 1..Len(issued) : issued[i].kind = "query"
    /\ (pc = "exited") => (exitCode \in {0, 1})

\* the query failed although a record was due
C5_Witness ==
    /\ queryRes = "failed"
    /\ exitCode = 1
    /\ \E r \in Rec : Matches(db[r], nowUtcIso)

\* C6 as stated: a record whose send succeeded and whose update failed is
\* selected by the next invocation whose query succeeds.
C6_NextRunSelects ==
    \A o \in owed :
        (queryRes = "ok" /\ fetchesOk = o.at + 1) => o.id \in PageIds

\* C6 as amended: such a record keeps Notify = true and the Notify Time and
\* LastSent it was fetched with; the next invocation whose query succeeds
\* selects it and sends its message again, unless the page it answers with is
\* full (more records match than the page holds).
C6_AtLeastOnce ==
    \A o \in owed :
        /\ db[o.id] = o.properties
        /\ db[o.id].Notify
        /\ (queryRes = "ok" /\ fetchesOk = o.at + 1) =>
            /\ o.id \in PageIds \/ Len(pages) = PageSize
            /\ (o.id \in PageIds /\ pc = "exited") =>
                \E i \in 1..Len(issued) : issued[i].kind = "send" /\ issued[i].body = o.id

\* the record was sent again by the next successful invocation
C6_Witness ==
    \E o \in owed :
        /\ queryRes = "ok"
        /\ fetchesOk = o.at + 1
        /\ \E i \in 1..Len(issued) : issued[i].kind = "send" /\ issued[i].body = o.id

\* the two shapes of an update for a page fetched with `props`, stamped `bound`
ShapeOk(body, props, bound) ==
    /\ body.LastSent = bound
    /\ IF OneTime(props)
       THEN /\ DOMAIN body = {"Notify", "LastSent"}
            /\ body.Notify = FALSE
       ELSE /\ DOMAIN body = {"Notify", "LastSent", "NotifyTime"}
            /\ body.Notify = TRUE
            /\ body.NotifyTime = nextBusinessDayIso(props.NotifyTime)

\* C7: every update issued is {Notify: false, LastSent: now} when Repeat is
\* 'None'/absent or Notify Time is absent, and {LastSent: now, Notify Time:
\* nextBusinessDayIso(old Notify Time), Notify: true} otherwise, `now` being
\* the bound the run's query was made with; a record whose update succeeded is
\* never both disabled and moved to another Notify Time.  Pages without a
\* Notify Time never match the query, so that case is checked on the request
\* body directly.
C7_UpdateShapes ==
    /\ \A i \in 1..Len(issued) :
        issued[i].kind = "patch" =>
            /\ issued[1].kind = "query"
            /\ issued[1].body = nowUtcIso
            /\ ShapeOk(issued[i].body, pages[issued[i].pos].properties, issued[1].body)
    /\ \A repeat \in {"", "None", "Daily"} :
        LET props == Props(TRUE, NoIso, repeat)
        IN  ShapeOk(ScheduleBody(nowUtcIso, props), props, nowUtcIso)
    /\ \A k \in 1..Len(pages) :
        outcome[k] = "ok" =>
            /\ db[pages[k].id].LastSent = nowUtcIso
            /\ ~db[pages[k].id].Notify
                => db[pages[k].id].NotifyTime = pages[k].properties.NotifyTime

\* one run issued an update of each shape, the clock having moved meanwhile
C7_Witness ==
    /\ ToISOString(clock) # nowUtcIso
    /\ \E i, j \in 1..Len(issued) :
        /\ issued[i].kind = "patch" /\ ~issued[i].body.Notify
        /\ issued[j].kind = "patch" /\ issued[j].body.Notify

\* C8: nextBusinessDayIso(t) is t + k days for the smallest k in 1..7 whose
\* Africa/Lagos weekday is neither Sat nor Sun, in UTC form and at the time of
\* day of t; Friday 2024-03-08T09:00:00Z gives Monday 2024-03-11T09:00:00Z.
C8_SmallestBusinessOffset ==
    calOut # NoIso =>
        LET t == ParseIso(calIn)
        IN  /\ \E k \in 1..MaxProbe :
                /\ calOut = [local |-> t + k * DayMs, off |-> 0]
                /\ getLagosWeekdayShort(t + k * DayMs) \notin WeekendCodes
                /\ \A j \in 1..(k - 1) : getLagosWeekdayShort(t + j * DayMs) \in WeekendCodes
            /\ ParseIso(calOut) % DayMs = t % DayMs
            /\ (calIn = [local |-> 4 * DayMs + 9, off |-> 0])
                    => (calOut = [local |-> 7 * DayMs + 9, off |-> 0])

\* the Friday 09:00Z example
C8_Witness ==
    /\ calIn = [local |-> 4 * DayMs + 9, off |-> 0]
    /\ calOut = [local |-> 7 * DayMs + 9, off |-> 0]

\* C9: at most one network call is outstanding; each fetched record gets at
\* most one send and one update per run; calls are issued in the order of
\* pages, and none for a record before the record ahead of it is finished.
C9_Sequential ==
    /\ Cardinality(inflight) <= 1
    /\ \A c \in inflight : c.kind = "query" \/ c.pos = idx
    /\ \A k \in 1..Len(pages) :
        /\ Cardinality(Calls("send", k)) <= 1
        /\ Cardinality(Calls("patch", k)) <= 1
        /\ (Calls("send", k) # {} /\ k > 1) => Finished(k - 1)
    /\ \A i, j \in 1..Len(issued) : i < j => issued[i].pos <= issued[j].pos
    /\ \A j, k \in 1..Len(pages) : j # k => pages[j].id # pages[k].id

\* the second record's update is awaited, alone, after the first finished
C9_Witness ==
    /\ pc = "awaitPatch"
    /\ idx = 2
    /\ Cardinality(inflight) = 1
    /\ Finished(1)

\* C10: an update is issued only for a record whose send succeeded in this
\* run, after that send; a record whose send failed gets no update and keeps
\* the properties it was fetched with, LastSent included.
C10_UpdateOnlyAfterSend ==
    \A k \in 1..Len(pages) :
        /\ \A i \in Calls("patch", k) :
            /\ outcome[k] \in {"sent", "ok", "patchFail"}
            /\ \E j \in Calls("send", k) : j < i
        /\ outcome[k] = "sendFail" =>
            /\ Calls("patch", k) = {}
            /\ db[pages[k].id] = pages[k].properties
        /\ db[pages[k].id].LastSent # pages[k].properties.LastSent => outcome[k] = "ok"

\* a failed send left its record alone while another record was updated
C10_Witness ==
    /\ pc = "exited"
    /\ \E j, k \in 1..Len(pages) :
        /\ outcome[j] = "sendFail"
        /\ db[pages[j].id] = pages[j].properties
        /\ outcome[k] = "ok"
        /\ db[pages[k].id].LastSent = nowUtcIso

====
